---------------------------- MODULE Spec2Model ----------------------------
(***************************************************************************)
(* Model of the self-learning search engine of the commercial rental       *)
(* service client (client/src/components/Filters.tsx, class                *)
(* SelfLearningAIEngine) and of the storage it persists its learning data  *)
(* to.                                                                     *)
(*                                                                         *)
(* Strings are sequences of characters; a character is one UTF-16 code     *)
(* unit, written as a short TLA+ string.  Cyrillic letters are written by  *)
(* their transliteration ("m" is the letter em, "zh" the letter zhe, "q"   *)
(* the soft sign, "j" the short i, "ya", "sh", "ch", "c" ...), upper-case  *)
(* Cyrillic letters by the upper-case transliteration ("O"), and Latin     *)
(* letters carry the prefix "L" ("Li", "Lt") so that they stay distinct    *)
(* from the Cyrillic letters that look alike.                              *)
(***************************************************************************)
EXTENDS Integers, Sequences, FiniteSets, TLC

(***************************************************************************)
(* Characters and the string functions of the JavaScript runtime           *)
(***************************************************************************)
Whitespace == {" ", "\t"}

Digits == <<"0", "1", "2", "3", "4", "5", "6", "7", "8", "9">>

UpperCase == [c \in {"O", "S", "M", "K"} |->
                 CASE c = "O" -> "o" [] c = "S" -> "s" [] c = "M" -> "m" [] c = "K" -> "k"]

\* String.prototype.toLowerCase, character by character
LowerChar(c) == IF c \in DOMAIN UpperCase THEN UpperCase[c] ELSE c

toLowerCase(s) == [i \in 1..Len(s) |-> LowerChar(s[i])]

RECURSIVE TrimStart(_)
TrimStart(s) == IF s # <<>> /\ Head(s) \in Whitespace THEN TrimStart(Tail(s)) ELSE s

RECURSIVE TrimEnd(_)
TrimEnd(s) ==
    IF s # <<>> /\ s[Len(s)] \in Whitespace THEN TrimEnd(SubSeq(s, 1, Len(s) - 1)) ELSE s

\* String.prototype.trim
trim(s) == TrimEnd(TrimStart(s))

\* String.prototype.includes
includes(s, sub) ==
    \E i \in 0..(Len(s) - Len(sub)) : SubSeq(s, i + 1, i + Len(sub)) = sub

\* Array.prototype.includes
arrayIncludes(arr, x) == \E i \in 1..Len(arr) : arr[i] = x

\* String.prototype.substring(0, n)
substring0(s, n) == SubSeq(s, 1, IF n < Len(s) THEN n ELSE Len(s))

\* String.prototype.split(/\s+/): the pieces between maximal runs of
\* whitespace, the empty pieces at both ends included.
RECURSIVE SplitFrom(_, _, _, _, _)
SplitFrom(s, i, cur, out, inSep) ==
    IF i > Len(s) THEN Append(out, cur)
    ELSE IF s[i] \in Whitespace
         THEN IF inSep THEN SplitFrom(s, i + 1, cur, out, TRUE)
              ELSE SplitFrom(s, i + 1, <<>>, Append(out, cur), TRUE)
         ELSE SplitFrom(s, i + 1, Append(cur, s[i]), out, FALSE)

splitWs(s) == SplitFrom(s, 1, <<>>, <<>>, FALSE)

DigitValue(c) == CHOOSE d \in 0..9 : Digits[d + 1] = c

IsDigit(c) == \E d \in 1..10 : Digits[d] = c

\* String.prototype.match(/\d+/g) followed by parseInt on every match: the
\* values of the maximal runs of digits, in order (<<>> for no match).
RECURSIVE DigitRunsFrom(_, _, _, _, _)
DigitRunsFrom(s, i, cur, inRun, out) ==
    IF i > Len(s) THEN (IF inRun THEN Append(out, cur) ELSE out)
    ELSE IF IsDigit(s[i])
         THEN DigitRunsFrom(s, i + 1, (IF inRun THEN cur * 10 ELSE 0) + DigitValue(s[i]), TRUE, out)
         ELSE DigitRunsFrom(s, i + 1, 0, FALSE, IF inRun THEN Append(out, cur) ELSE out)

matchNumbers(s) == DigitRunsFrom(s, 1, 0, FALSE, <<>>)

Min2(a, b) == IF a < b THEN a ELSE b

Max2(a, b) == IF a > b THEN a ELSE b

Abs(a) == IF a < 0 THEN 0 - a ELSE a

(***************************************************************************)
(* levenshteinDistance: the matrix is filled row by row; a row is the      *)
(* sequence matrix[i][0..Len(str1)], kept at indices 1..Len(str1)+1.       *)
(***************************************************************************)
RECURSIVE LevRow(_, _, _, _, _)
LevRow(prev, ch, str1, j, row) ==
    IF j > Len(str1) THEN row
    ELSE LET cell == IF ch = str1[j]
                     THEN prev[j]
                     ELSE Min2(prev[j] + 1, Min2(row[j] + 1, prev[j + 1] + 1))
             filled == Append(row, cell)
         IN  \* the row is evaluated before the next cell is begun
             IF Len(filled) = j + 1 THEN LevRow(prev, ch, str1, j + 1, filled) ELSE filled

RECURSIVE LevRows(_, _, _, _)
LevRows(str1, str2, i, prev) ==
    IF i > Len(str2) THEN prev
    ELSE LET row == LevRow(prev, str2[i], str1, 1, <<i>>)
         IN  \* the row is evaluated before the next row is begun
             IF Len(row) = Len(str1) + 1 THEN LevRows(str1, str2, i + 1, row) ELSE row

\* A distance that only counts the difference of the lengths
lengthDistance(str1, str2) == Abs(Len(str1) - Len(str2))

levenshteinDistance(str1, str2) ==
    LevRows(str1, str2, 1, [j \in 1..(Len(str1) + 1) |-> j - 1])[Len(str1) + 1]

\* calculateStringSimilarity: the quotient (longer.length - distance) /
\* longer.length as the fraction num/den, 1/1 for two empty strings.
calculateStringSimilarity(str1, str2) ==
    LET longer  == IF Len(str1) > Len(str2) THEN str1 ELSE str2
        shorter == IF Len(str1) > Len(str2) THEN str2 ELSE str1
    IN  IF Len(longer) = 0 THEN [num |-> 1, den |-> 1]
        ELSE [num |-> Len(longer) - levenshteinDistance(longer, shorter),
              den |-> Len(longer)]

\* calculateStringSimilarity(str1, str2) > num/den, compared without division
SimilarityAbove(str1, str2, num, den) ==
    LET similarity == calculateStringSimilarity(str1, str2)
    IN  similarity.num * den > num * similarity.den

(***************************************************************************)
(* Words of the engine's fixed tables                                      *)
(***************************************************************************)
W_magazin   == <<"m", "a", "g", "a", "z", "i", "n">>
W_torgovlya == <<"t", "o", "r", "g", "o", "v", "l", "ya">>
W_prodazha  == <<"p", "r", "o", "d", "a", "zh", "a">>
W_ritejl    == <<"r", "i", "t", "e", "j", "l">>
W_roznica   == <<"r", "o", "z", "n", "i", "c", "a">>
W_restoran  == <<"r", "e", "s", "t", "o", "r", "a", "n">>
W_kafe      == <<"k", "a", "f", "e">>
W_bar       == <<"b", "a", "r">>
W_obschepit == <<"o", "b", "sch", "e", "p", "i", "t">>
W_eda       == <<"e", "d", "a">>
W_pitanie   == <<"p", "i", "t", "a", "n", "i", "e">>
W_ofis      == <<"o", "f", "i", "s">>
W_rabota    == <<"r", "a", "b", "o", "t", "a">>
W_biznes    == <<"b", "i", "z", "n", "e", "s">>
W_delovoj   == <<"d", "e", "l", "o", "v", "o", "j">>
W_it        == <<"Li", "Lt">>
W_sklad     == <<"s", "k", "l", "a", "d">>
W_hranenie  == <<"h", "r", "a", "n", "e", "n", "i", "e">>
W_logistika == <<"l", "o", "g", "i", "s", "t", "i", "k", "a">>
W_tovary    == <<"t", "o", "v", "a", "r", "y">>
W_malenqkij == <<"m", "a", "l", "e", "n", "q", "k", "i", "j">>
W_nebolqshoj == <<"n", "e", "b", "o", "l", "q", "sh", "o", "j">>
W_srednij   == <<"s", "r", "e", "d", "n", "i", "j">>
W_bolqshoj  == <<"b", "o", "l", "q", "sh", "o", "j">>
W_deshevo   == <<"d", "e", "sh", "e", "v", "o">>
W_nedorogo  == <<"n", "e", "d", "o", "r", "o", "g", "o">>
W_dorogo    == <<"d", "o", "r", "o", "g", "o">>
W_premium   == <<"p", "r", "e", "m", "i", "u", "m">>
W_parkovka  == <<"p", "a", "r", "k", "o", "v", "k", "a">>
W_parking   == <<"p", "a", "r", "k", "i", "n", "g">>
W_centr     == <<"c", "e", "n", "t", "r">>
W_metro     == <<"m", "e", "t", "r", "o">>
W_pervyjEtazh == <<"p", "e", "r", "v", "y", "j", " ", "eh", "t", "a", "zh">>
W_1Etazh    == <<"1", " ", "eh", "t", "a", "zh">>

\* baseKeywords of getLearnedTypeKeywords
baseKeywords(typeLower) ==
    CASE typeLower = W_magazin  -> <<W_magazin, W_torgovlya, W_prodazha, W_ritejl, W_roznica>>
      [] typeLower = W_restoran -> <<W_restoran, W_kafe, W_bar, W_obschepit, W_eda, W_pitanie>>
      [] typeLower = W_ofis     -> <<W_ofis, W_rabota, W_biznes, W_delovoj, W_it>>
      [] typeLower = W_sklad    -> <<W_sklad, W_hranenie, W_logistika, W_tovary>>
      [] OTHER                  -> <<>>

\* getLearnedSizePreferences: the size words in the order Object.entries
\* yields them, each with its range of areas.
getLearnedSizePreferences ==
    << [word |-> W_malenqkij,  min |-> 0,   max |-> 50],
       [word |-> W_nebolqshoj, min |-> 50,  max |-> 100],
       [word |-> W_srednij,    min |-> 100, max |-> 200],
       [word |-> W_bolqshoj,   min |-> 200, max |-> 500] >>

priceWords == <<W_deshevo, W_nedorogo, W_dorogo, W_premium>>

(***************************************************************************)
(* Scores.  The engine computes scores as floating-point numbers; the      *)
(* model keeps every score as an integer number of 1/ScoreScale units, a   *)
(* scale under which every term of the engine is integral for queries of   *)
(* up to six words.                                                        *)
(***************************************************************************)
ScoreScale == 30 * 10

FeatureNames ==
    {"exact_match", "type_match", "size_match", "price_match", "feature_match",
     "location_match", "number_match", "word_match"}

\* The initial weights of loadLearningData
DefaultWeights ==
    [f \in FeatureNames |->
        CASE f = "exact_match"    -> 100
          [] f = "type_match"     -> 50
          [] f = "size_match"     -> 30
          [] f = "price_match"    -> 30
          [] f = "feature_match"  -> 25
          [] f = "location_match" -> 20
          [] f = "number_match"   -> 40
          [] f = "word_match"     -> 20]

\* map.get(key) || dflt on a Map of numbers
getOr(map, key, dflt) == IF key \in DOMAIN map /\ map[key] # 0 THEN map[key] ELSE dflt

\* The array a contextualMappings entry holds.  An entry installed by
\* analyzeSuccessfulQuery holds the very array of the logged interaction
\* (ref is its index in successfulQueries); any other entry owns its array.
mappingIds(ld, key) ==
    LET m == ld.contextualMappings[key]
    IN  IF m.ref = 0 THEN m.ids ELSE ld.successfulQueries[m.ref].clickedListings

getLearnedTypeKeywords(ld, type) ==
    LET typeLower == toLowerCase(type)
        learned == {w \in DOMAIN ld.queryPatterns :
                       ld.queryPatterns[w] > 5 /\ includes(w, substring0(typeLower, 4))}
    IN  [base |-> baseKeywords(typeLower), learned |-> learned]

typeKeywordInQuery(ld, type, query) ==
    LET kw == getLearnedTypeKeywords(ld, type)
    IN  \/ \E i \in 1..Len(kw.base) : includes(query, kw.base[i])
        \/ \E w \in kw.learned : includes(query, w)

\* The first number of the query that decides the size score, if any
RECURSIVE SizeByNumbers(_, _, _)
SizeByNumbers(numbers, i, area) ==
    IF i > Len(numbers) THEN 0
    ELSE LET num  == numbers[i]
             diff == Abs(area - num)
         IN  IF num <= 1000 /\ diff <= 20 THEN 40
             ELSE IF num <= 1000 /\ diff <= 50 THEN 20
             ELSE IF num <= 1000 /\ diff <= 100 THEN 10
             ELSE SizeByNumbers(numbers, i + 1, area)

RECURSIVE SizeByWords(_, _, _)
SizeByWords(query, i, area) ==
    IF i > Len(getLearnedSizePreferences) THEN 0
    ELSE LET e == getLearnedSizePreferences[i]
         IN  IF includes(query, e.word) /\ area >= e.min /\ area <= e.max THEN 30
             ELSE SizeByWords(query, i + 1, area)

\* A size score that tries the size words before the numbers
sizeScoreWordsFirst(query, area) ==
    LET byWords == SizeByWords(query, 1, area)
    IN  IF byWords > 0 THEN byWords ELSE SizeByNumbers(matchNumbers(query), 1, area)

calculateAdaptiveSizeScore(query, area) ==
    LET byNumbers == SizeByNumbers(matchNumbers(query), 1, area)
    IN  IF byNumbers > 0 THEN byNumbers ELSE SizeByWords(query, 1, area)

\* diff <= num * 0.1, 0.2, 0.3 are compared as 10 * diff <= num * 1, 2, 3
RECURSIVE PriceByNumbers(_, _, _)
PriceByNumbers(numbers, i, price) ==
    IF i > Len(numbers) THEN 0
    ELSE LET num  == numbers[i]
             diff == Abs(price - num)
         IN  IF num > 1000 /\ 10 * diff <= num THEN 40
             ELSE IF num > 1000 /\ 10 * diff <= 2 * num THEN 20
             ELSE IF num > 1000 /\ 10 * diff <= 3 * num THEN 10
             ELSE PriceByNumbers(numbers, i + 1, price)

\* The price-word branch, in tenths: Math.min(30, preference / 10) for the
\* first price word of the table the query contains.
RECURSIVE PriceByWords10(_, _, _)
PriceByWords10(ld, query, i) ==
    IF i > Len(priceWords) THEN 0
    ELSE IF includes(query, priceWords[i])
         THEN Min2(30 * 10, getOr(ld.userPreferences, <<"price", priceWords[i]>>, 0))
         ELSE PriceByWords10(ld, query, i + 1)

\* calculateAdaptivePriceScore, in tenths
calculateAdaptivePriceScore10(ld, query, price) ==
    LET byNumbers == PriceByNumbers(matchNumbers(query), 1, price)
    IN  IF byNumbers > 0 THEN byNumbers * 10 ELSE PriceByWords10(ld, query, 1)

\* A listing is a record of the fields the object has; a field the object
\* lacks reads as undefined.
\* The text a template literal makes of undefined:
W_undefined == <<"Lu", "Ln", "Ld", "Le", "Lf", "Li", "Ln", "Le", "Ld">>

\* `${listing[name]}` of the template literal of calculateAdaptiveScore
textOf(listing, name) == IF name \in DOMAIN listing THEN listing[name] ELSE W_undefined

\* listing[name] of a boolean field read as a condition: undefined is falsy
flagOf(listing, name) == name \in DOMAIN listing /\ listing[name]

\* listing.location.toLowerCase() throws a TypeError when the listing has
\* no location, which calculateAdaptiveScore and search do not catch.
scoreThrows(listing) == "location" \notin DOMAIN listing

\* The feature table of calculateFeatureScore for one listing that has a
\* location
featureTable(listing) ==
    << [keywords |-> <<W_parkovka, W_parking>>,   has |-> flagOf(listing, "hasParking")],
       [keywords |-> <<W_sklad, W_hranenie>>,     has |-> flagOf(listing, "hasStorage")],
       [keywords |-> <<W_centr>>,                 has |-> includes(toLowerCase(listing.location), W_centr)],
       [keywords |-> <<W_metro>>,                 has |-> includes(toLowerCase(listing.location), W_metro)],
       [keywords |-> <<W_pervyjEtazh, W_1Etazh>>,
        has |-> "floor" \in DOMAIN listing /\ listing.floor = 1] >>

RECURSIVE FeatureSum(_, _, _, _)
FeatureSum(ld, query, table, i) ==
    IF i > Len(table) THEN 0
    ELSE LET f == table[i]
             fires == f.has /\ \E k \in 1..Len(f.keywords) : includes(query, f.keywords[k])
         IN  (IF fires THEN 25 * getOr(ld.userPreferences, <<"feature", f.keywords[1]>>, 1) ELSE 0)
             + FeatureSum(ld, query, table, i + 1)

calculateFeatureScore(ld, query, listing) == FeatureSum(ld, query, featureTable(listing), 1)

\* A contextual score that grows with the word_match weight
contextualScoreByWordWeight(ld, query, listing) ==
    IF \E savedQuery \in DOMAIN ld.contextualMappings :
          /\ SimilarityAbove(query, savedQuery, 7, 10)
          /\ arrayIncludes(mappingIds(ld, savedQuery), listing.id)
    THEN 30 + getOr(ld.featureWeights, "word_match", 20) ELSE 0

calculateContextualScore(ld, query, listing) ==
    IF \E savedQuery \in DOMAIN ld.contextualMappings :
          /\ SimilarityAbove(query, savedQuery, 7, 10)
          /\ arrayIncludes(mappingIds(ld, savedQuery), listing.id)
    THEN 50 ELSE 0

\* calculateSemanticSimilarity, in 1/ScoreScale units
calculateSemanticSimilarity(query, text) ==
    LET queryWords == splitWs(query)
        textWords  == splitWs(text)
        hasMatch(qWord) ==
            \E t \in 1..Len(textWords) :
                \/ includes(textWords[t], qWord)
                \/ includes(qWord, textWords[t])
                \/ SimilarityAbove(qWord, textWords[t], 8, 10)
        matchCount == Cardinality({q \in 1..Len(queryWords) :
                                      Len(queryWords[q]) > 2 /\ hasMatch(queryWords[q])})
    IN  (matchCount * 30 * ScoreScale) \div Len(queryWords)

\* The text a listing is matched against
listingText(listing) ==
    toLowerCase(textOf(listing, "title") \o <<" ">> \o textOf(listing, "description")
                \o <<" ">> \o textOf(listing, "location") \o <<" ">> \o listing.type)

\* calculateAdaptiveScore: the score in 1/ScoreScale units and the matched
\* features in the order they are pushed.
calculateAdaptiveScore(ld, query, listing) ==
    LET text    == listingText(listing)
        weights == ld.featureWeights
        exact   == includes(text, query)
        type    == typeKeywordInQuery(ld, listing.type, query)
        sizeScore     == calculateAdaptiveSizeScore(query, listing.area)
        priceScore10  == calculateAdaptivePriceScore10(ld, query, listing.price)
        featureScore  == calculateFeatureScore(ld, query, listing)
        contextScore  == calculateContextualScore(ld, query, listing)
        semanticScore == calculateSemanticSimilarity(query, text)
        tag(b, name)  == IF b THEN <<name>> ELSE <<>>
    IN  [score |->
              (IF exact THEN getOr(weights, "exact_match", 100) * ScoreScale ELSE 0)
            + (IF type THEN getOr(weights, "type_match", 50) * ScoreScale ELSE 0)
            + (IF sizeScore > 0
               THEN (sizeScore * getOr(weights, "size_match", 30) * ScoreScale) \div 30 ELSE 0)
            + (IF priceScore10 > 0
               THEN (priceScore10 * getOr(weights, "price_match", 30) * ScoreScale) \div (30 * 10)
               ELSE 0)
            + (IF featureScore > 0
               THEN (featureScore * getOr(weights, "feature_match", 25) * ScoreScale) \div 25 ELSE 0)
            + (IF contextScore > 0 THEN contextScore * ScoreScale ELSE 0)
            + (IF semanticScore > 0 THEN semanticScore ELSE 0),
         matchedFeatures |->
              tag(exact, "exact_match") \o tag(type, "type_match")
              \o tag(sizeScore > 0, "size_match") \o tag(priceScore10 > 0, "price_match")
              \o tag(featureScore > 0, "feature_match") \o tag(contextScore > 0, "context_match")
              \o tag(semanticScore > 0, "semantic_match")]

(***************************************************************************)
(* Ranking                                                                 *)
(***************************************************************************)
\* Math.min(20, typeFrequency / 5), in 1/ScoreScale units
calculateTypeBonus(ld, type) ==
    Min2(20 * ScoreScale,
         (getOr(ld.userPreferences, <<"type", toLowerCase(type)>>, 0) * ScoreScale) \div 5)

\* Math.min(15, clickCount * 2), in 1/ScoreScale units
calculatePopularityScore(ld, listingId) ==
    LET clickCount == Cardinality({i \in 1..Len(ld.successfulQueries) :
                          arrayIncludes(ld.successfulQueries[i].clickedListings, listingId)})
    IN  Min2(15, clickCount * 2) * ScoreScale

\* A comparator that leaves the bonuses out
rankingScoreWithoutBonuses(ld, item) == item.score

\* The key the comparator of applyMLRanking orders by
rankingScore(ld, item) ==
    item.score + calculateTypeBonus(ld, item.listing.type)
               + calculatePopularityScore(ld, item.listing.id)

\* Array.prototype.sort with the comparator scoreB - scoreA: a stable sort
\* into non-increasing order of the key (insertion sort, each element placed
\* after the elements whose key is not smaller).  The elements carry the key
\* the comparator computes for them in the field rank.
RECURSIVE InsertByRank(_, _)
InsertByRank(sorted, item) ==
    IF sorted = <<>> THEN <<item>>
    ELSE IF Head(sorted).rank >= item.rank
         THEN <<Head(sorted)>> \o InsertByRank(Tail(sorted), item)
         ELSE <<item>> \o sorted

RECURSIVE SortFrom(_, _, _)
SortFrom(results, i, sorted) ==
    IF i > Len(results) THEN sorted
    ELSE SortFrom(results, i + 1, InsertByRank(sorted, results[i]))

applyMLRanking(ld, results) ==
    SortFrom([i \in 1..Len(results) |->
                 [listing |-> results[i].listing, score |-> results[i].score,
                  rank |-> rankingScore(ld, results[i])]],
             1, <<>>)

\* A cut-off that lets a score of 0 pass
passesCutoffFromZero(item) == item.score >= 0

\* The cut-off of search: item.score > 0
passesCutoff(item) == item.score > 0

\* rankedListings.filter(item => item.score > 0)
RECURSIVE filterCutoff(_)
filterCutoff(seq) ==
    IF seq = <<>> THEN <<>>
    ELSE (IF passesCutoff(Head(seq)) THEN <<Head(seq)>> ELSE <<>>) \o filterCutoff(Tail(seq))

\* A scoring in which the place of a listing in the list counts
scoreListingsByPosition(ld, normalizedQuery, listings) ==
    [i \in 1..Len(listings) |->
        LET result == calculateAdaptiveScore(ld, normalizedQuery, listings[i])
        IN  [listing |-> listings[i], score |-> result.score + i,
             matchedFeatures |-> result.matchedFeatures]]

\* scoredListings of search: every listing scored on its own, in the
\* order of the list
scoreListings(ld, normalizedQuery, listings) ==
    [i \in 1..Len(listings) |->
        LET result == calculateAdaptiveScore(ld, normalizedQuery, listings[i])
        IN  [listing |-> listings[i], score |-> result.score,
             matchedFeatures |-> result.matchedFeatures]]

\* A search that ranks whatever the query is
searchWithoutPassThrough(ld, query, listings) ==
    LET normalizedQuery == trim(toLowerCase(query))
        kept == filterCutoff(applyMLRanking(ld, scoreListings(ld, normalizedQuery, listings)))
    IN  [i \in 1..Len(kept) |-> kept[i].listing]

\* search, the value it returns when no listing makes it throw
search(ld, query, listings) ==
    LET normalizedQuery == trim(toLowerCase(query))
        kept == filterCutoff(applyMLRanking(ld, scoreListings(ld, normalizedQuery, listings)))
    IN  IF normalizedQuery = <<>> THEN listings
        ELSE [i \in 1..Len(kept) |-> kept[i].listing]

\* Whether search throws: the query is not empty and the scoring of one of
\* the listings throws
searchThrows(query, listings) ==
    /\ trim(toLowerCase(query)) # <<>>
    /\ \E i \in 1..Len(listings) : scoreThrows(listings[i])

(***************************************************************************)
(* Learning data, its serialised form and the feedback operations          *)
(***************************************************************************)
\* An optional value is a sequence of at most one element.
\* feedbackRating of an interaction that carries none (undefined):
NoRating == <<>>

\* localStorage.getItem of a key that was never set (null):
NoBlob == <<>>

EmptyMap == [k \in {} |-> 0]

\* Map.prototype.set
mapSet(map, key, value) ==
    [k \in DOMAIN map \cup {key} |-> IF k = key THEN value ELSE map[k]]

\* The learning data of an engine that found nothing to load
DefaultLearningData ==
    [queryPatterns      |-> EmptyMap,
     successfulQueries  |-> <<>>,
     featureWeights     |-> DefaultWeights,
     userPreferences    |-> EmptyMap,
     contextualMappings |-> EmptyMap]

\* The number of interactions saveLearningData keeps: slice(-1000)
LogCap == 1000

lastEntries(log, n) == IF Len(log) <= n THEN log ELSE SubSeq(log, Len(log) - n + 1, Len(log))

\* A blob that keeps the whole log
serializeWholeLog(ld) ==
    [queryPatterns      |-> ld.queryPatterns,
     successfulQueries  |-> ld.successfulQueries,
     featureWeights     |-> ld.featureWeights,
     userPreferences    |-> ld.userPreferences,
     contextualMappings |-> [k \in DOMAIN ld.contextualMappings |-> mappingIds(ld, k)]]

\* toSave of saveLearningData, as JSON.stringify writes it: the maps as
\* their entries, every array by value.
serialize(ld) ==
    [queryPatterns      |-> ld.queryPatterns,
     successfulQueries  |-> lastEntries(ld.successfulQueries, LogCap),
     featureWeights     |-> ld.featureWeights,
     userPreferences    |-> ld.userPreferences,
     contextualMappings |-> [k \in DOMAIN ld.contextualMappings |-> mappingIds(ld, k)]]

\* The names of the fields of the blob that loadLearningData hands to
\* new Map
MapFields == {"queryPatterns", "featureWeights", "userPreferences", "contextualMappings"}

\* What storage holds is a record: the object JSON.parse makes of it, with
\* the fields it has.  A text that JSON.parse rejects, or parses to null, is
\* a record with the field garbage; nonIterable names the fields that hold
\* a value new Map cannot iterate (a number, a plain object).
\* Whether the try block of loadLearningData throws:
loadThrows(parsed) ==
    \/ "garbage" \in DOMAIN parsed
    \/ "nonIterable" \in DOMAIN parsed /\ parsed.nonIterable \cap MapFields # {}

\* loadLearningData: parsed.field || [] for a field the blob lacks; JSON.parse
\* gives every mapping an array of its own.
loadLearningData(saved) ==
    IF saved = NoBlob THEN DefaultLearningData
    ELSE LET parsed == saved[1]
             has(name) == name \in DOMAIN parsed
         IN  IF loadThrows(parsed) THEN DefaultLearningData
             ELSE [queryPatterns      |-> IF has("queryPatterns") THEN parsed.queryPatterns
                                          ELSE EmptyMap,
                   successfulQueries  |-> IF has("successfulQueries")
                                          THEN parsed.successfulQueries ELSE <<>>,
                   featureWeights     |-> IF has("featureWeights") THEN parsed.featureWeights
                                          ELSE EmptyMap,
                   userPreferences    |-> IF has("userPreferences") THEN parsed.userPreferences
                                          ELSE EmptyMap,
                   contextualMappings |->
                       IF has("contextualMappings")
                       THEN [k \in DOMAIN parsed.contextualMappings |->
                                [ref |-> 0, ids |-> parsed.contextualMappings[k]]]
                       ELSE EmptyMap]

\* A new weight with no floor
adjustWeightWithoutFloor(weight, adjustment) == Min2(150, weight + adjustment)

\* A new weight with no ceiling
adjustWeightWithoutCeiling(weight, adjustment) == Max2(5, weight + adjustment)

\* The new weight of updateWeightsBasedOnFeedback
adjustWeight(weight, adjustment) == Max2(5, Min2(150, weight + adjustment))

\* An adjustment of 10 for every step of the rating
updateWeightsByTens(ld, interaction) ==
    LET adjustment == (interaction.feedbackRating[1] - 3) * 10
    IN  [ld EXCEPT !.featureWeights =
            [f \in DOMAIN ld.featureWeights |-> adjustWeight(ld.featureWeights[f], adjustment)]]

updateWeightsBasedOnFeedback(ld, interaction) ==
    LET adjustment == (interaction.feedbackRating[1] - 3) * 5
    IN  [ld EXCEPT !.featureWeights =
            [f \in DOMAIN ld.featureWeights |-> adjustWeight(ld.featureWeights[f], adjustment)]]

\* words.forEach of analyzeSuccessfulQuery
RECURSIVE countWords(_, _, _)
countWords(patterns, words, i) ==
    IF i > Len(words) THEN patterns
    ELSE countWords(IF Len(words[i]) > 2
                    THEN mapSet(patterns, words[i], getOr(patterns, words[i], 0) + 1)
                    ELSE patterns,
                    words, i + 1)

\* An analysis that also learns a preference for cheap listings
analyzeSuccessfulQueryWithPreference(ld, idx) ==
    LET interaction == ld.successfulQueries[idx]
        query == toLowerCase(interaction.query)
    IN  [ld EXCEPT
            !.queryPatterns = countWords(ld.queryPatterns, splitWs(query), 1),
            !.userPreferences = mapSet(ld.userPreferences, <<"price", W_deshevo>>, 100),
            !.contextualMappings =
                mapSet(ld.contextualMappings, query, [ref |-> idx, ids |-> <<>>])]

\* An analysis that adds the clicked ids to the ids the query had
analyzeSuccessfulQueryMerging(ld, idx) ==
    LET interaction == ld.successfulQueries[idx]
        query == toLowerCase(interaction.query)
        had == IF query \in DOMAIN ld.contextualMappings THEN mappingIds(ld, query) ELSE <<>>
    IN  [ld EXCEPT
            !.queryPatterns = countWords(ld.queryPatterns, splitWs(query), 1),
            !.contextualMappings =
                mapSet(ld.contextualMappings, query,
                       [ref |-> 0, ids |-> had \o interaction.clickedListings])]

\* analyzeSuccessfulQuery of the interaction at index idx of the log: the
\* mapping of its query becomes the array of that interaction.
analyzeSuccessfulQuery(ld, idx) ==
    LET interaction == ld.successfulQueries[idx]
        query == toLowerCase(interaction.query)
    IN  [ld EXCEPT
            !.queryPatterns = countWords(ld.queryPatterns, splitWs(query), 1),
            !.contextualMappings =
                IF Len(interaction.clickedListings) > 0
                THEN mapSet(ld.contextualMappings, query, [ref |-> idx, ids |-> <<>>])
                ELSE ld.contextualMappings]

\* A recordInteraction that loses the adjustment of the weights
recordInteractionWithoutAdjustment(ld, interaction) ==
    [ld EXCEPT !.successfulQueries = Append(ld.successfulQueries, interaction)]

\* recordInteraction, before it saves
recordInteraction(ld, interaction) ==
    LET pushed   == [ld EXCEPT !.successfulQueries = Append(ld.successfulQueries, interaction)]
        analyzed == IF Len(interaction.clickedListings) > 0
                    THEN analyzeSuccessfulQuery(pushed, Len(pushed.successfulQueries))
                    ELSE pushed
    IN  IF interaction.feedbackRating # NoRating
        THEN updateWeightsBasedOnFeedback(analyzed, interaction)
        ELSE analyzed

\* A click put in front of the ids recorded before it
pushClickInFront(ld, key, listingId) ==
    IF key \in DOMAIN ld.contextualMappings /\ ld.contextualMappings[key].ref # 0
    THEN [ld EXCEPT !.successfulQueries[ld.contextualMappings[key].ref].clickedListings =
                        <<listingId>> \o @]
    ELSE [ld EXCEPT !.contextualMappings =
            mapSet(ld.contextualMappings, key,
                   [ref |-> 0,
                    ids |-> <<listingId>> \o (IF key \in DOMAIN ld.contextualMappings
                                              THEN ld.contextualMappings[key].ids ELSE <<>>)])]

\* existing.push(listingId) of recordClick on the array of the mapping
pushClick(ld, key, listingId) ==
    IF key \in DOMAIN ld.contextualMappings /\ ld.contextualMappings[key].ref # 0
    THEN [ld EXCEPT !.successfulQueries[ld.contextualMappings[key].ref].clickedListings =
                        Append(@, listingId)]
    ELSE [ld EXCEPT !.contextualMappings =
            mapSet(ld.contextualMappings, key,
                   [ref |-> 0,
                    ids |-> Append(IF key \in DOMAIN ld.contextualMappings
                                   THEN ld.contextualMappings[key].ids ELSE <<>>, listingId)])]

\* Whether recordClick finds the id already recorded for the key
alreadyClicked(ld, key, listingId) ==
    key \in DOMAIN ld.contextualMappings /\ arrayIncludes(mappingIds(ld, key), listingId)

(***************************************************************************)
(* State                                                                   *)
(***************************************************************************)
VARIABLES
    learningData,      \* this.learningData
    currentQuery,      \* this.currentQuery
    currentSessionId,  \* this.currentSessionId, the number of the engine
    storage,           \* localStorage['ai_learning_data'], parsed
    now,               \* the clock Date.now() reads
    saveFailures,      \* the number of localStorage.setItem calls that threw
    ui,                \* the state of the SelfLearningAI component
    api,               \* the state of a useApi hook, its calls and the apiCache
    last               \* the last call made, with its arguments and result

vars == <<learningData, currentQuery, currentSessionId, storage, now, saveFailures, ui, api, last>>

\* The number of engines constructed in one run of the model
MaxSessions == 2

\* The number of saves that fail in one run of the model
MaxSaveFailures == 1

\* A test of the current query that always passes
hasCurrentQueryAlways == TRUE

\* if (this.currentQuery) of recordClick and recordFeedback
hasCurrentQuery == currentQuery # <<>>

\* A search that counts the words of its query as analyzeSuccessfulQuery does
SearchThatLearns(query, listings) ==
    /\ currentQuery' = query
    /\ learningData' =
          [learningData EXCEPT !.queryPatterns =
              countWords(@, splitWs(toLowerCase(query)), 1)]
    /\ last' = [op |-> "search", query |-> query, listings |-> listings,
                inputAfter |-> listings, threw |-> FALSE, scored |-> <<>>,
                ret |-> search(learningData, query, listings)]
    /\ UNCHANGED <<currentSessionId, storage, now, saveFailures>>

\* search(query, listings).  The call sets currentQuery and then either
\* throws (threw) or returns ret; scored is its scoredListings, and
\* inputAfter the array of the caller after the call: listings.map builds
\* the array that applyMLRanking sorts in place.
Search(query, listings) ==
    LET threw == searchThrows(query, listings)
        normalizedQuery == trim(toLowerCase(query))
    IN  /\ currentQuery' = query
        /\ last' = [op |-> "search", query |-> query, listings |-> listings,
                    inputAfter |-> listings, threw |-> threw,
                    scored |-> IF threw \/ normalizedQuery = <<>> THEN <<>>
                               ELSE scoreListings(learningData, normalizedQuery, listings),
                    ret |-> IF threw THEN <<>> ELSE search(learningData, query, listings)]
        /\ UNCHANGED <<learningData, currentSessionId, storage, now, saveFailures>>

\* saveLearningData of the new learning data: localStorage.setItem either
\* stores the blob or throws (the quota is exceeded, storage is disabled),
\* which is caught.
saveLearningData(ok) ==
    /\ ok \/ saveFailures < MaxSaveFailures
    /\ storage' = IF ok THEN <<serialize(learningData')>> ELSE storage
    /\ saveFailures' = IF ok THEN saveFailures ELSE saveFailures + 1

\* A recordInteraction that a failing write undoes
RecordInteractionAllOrNothing(query, clicked, rating, ok, limit) ==
    LET interaction == [query |-> query, timestamp |-> now, resultsCount |-> 0,
                        clickedListings |-> clicked, feedbackRating |-> rating,
                        sessionId |-> currentSessionId]
    IN  /\ now < limit
        /\ ok \/ saveFailures < MaxSaveFailures
        /\ learningData' = IF ok THEN recordInteraction(learningData, interaction)
                           ELSE learningData
        /\ storage' = IF ok THEN <<serialize(learningData')>> ELSE storage
        /\ saveFailures' = IF ok THEN saveFailures ELSE saveFailures + 1
        /\ now' = now + 1
        /\ last' = [op |-> "recordInteraction", interaction |-> interaction, saved |-> ok]
        /\ UNCHANGED <<currentQuery, currentSessionId>>

\* recordInteraction(interaction); limit bounds the clock of the run
RecordInteraction(query, clicked, rating, ok, limit) ==
    LET interaction == [query |-> query, timestamp |-> now, resultsCount |-> 0,
                        clickedListings |-> clicked, feedbackRating |-> rating,
                        sessionId |-> currentSessionId]
    IN  /\ now < limit
        /\ learningData' = recordInteraction(learningData, interaction)
        /\ saveLearningData(ok)
        /\ now' = now + 1
        /\ last' = [op |-> "recordInteraction", interaction |-> interaction, saved |-> ok]
        /\ UNCHANGED <<currentQuery, currentSessionId>>

\* A recordFeedback that logs a click on listing 1 with the rating
RecordFeedbackWithClick(rating, ok, limit) ==
    LET interaction == [query |-> currentQuery, timestamp |-> now, resultsCount |-> 0,
                        clickedListings |-> <<"1">>, feedbackRating |-> <<rating>>,
                        sessionId |-> currentSessionId]
    IN  IF hasCurrentQuery
        THEN /\ now < limit
             /\ learningData' = recordInteraction(learningData, interaction)
             /\ saveLearningData(ok)
             /\ now' = now + 1
             /\ last' = [op |-> "recordFeedback", rating |-> rating, recorded |-> TRUE,
                         saved |-> ok]
             /\ UNCHANGED <<currentQuery, currentSessionId>>
        ELSE /\ ok
             /\ last' = [op |-> "recordFeedback", rating |-> rating, recorded |-> FALSE,
                         saved |-> FALSE]
             /\ UNCHANGED <<learningData, currentQuery, currentSessionId, storage, now,
                            saveFailures>>

\* recordFeedback(rating)
RecordFeedback(rating, ok, limit) ==
    LET interaction == [query |-> currentQuery, timestamp |-> now, resultsCount |-> 0,
                        clickedListings |-> <<>>, feedbackRating |-> <<rating>>,
                        sessionId |-> currentSessionId]
    IN  IF hasCurrentQuery
        THEN /\ now < limit
             /\ learningData' = recordInteraction(learningData, interaction)
             /\ saveLearningData(ok)
             /\ now' = now + 1
             /\ last' = [op |-> "recordFeedback", rating |-> rating, recorded |-> TRUE,
                         saved |-> ok]
             /\ UNCHANGED <<currentQuery, currentSessionId>>
        ELSE /\ ok
             /\ last' = [op |-> "recordFeedback", rating |-> rating, recorded |-> FALSE,
                         saved |-> FALSE]
             /\ UNCHANGED <<learningData, currentQuery, currentSessionId, storage, now,
                            saveFailures>>

\* recordClick(listingId)
RecordClick(listingId, ok) ==
    IF hasCurrentQuery /\ ~alreadyClicked(learningData, currentQuery, listingId)
    THEN /\ learningData' = pushClick(learningData, currentQuery, listingId)
         /\ saveLearningData(ok)
         /\ last' = [op |-> "recordClick", listingId |-> listingId, recorded |-> TRUE,
                     saved |-> ok]
         /\ UNCHANGED <<currentQuery, currentSessionId, now>>
    ELSE /\ ok
         /\ last' = [op |-> "recordClick", listingId |-> listingId, recorded |-> FALSE,
                     saved |-> FALSE]
         /\ UNCHANGED <<learningData, currentQuery, currentSessionId, storage, now,
                        saveFailures>>

\* The page is loaded again: getInstance constructs a new engine, which
\* loads what the storage holds.
Restart ==
    /\ currentSessionId < MaxSessions
    /\ learningData' = loadLearningData(storage)
    /\ currentQuery' = <<>>
    /\ currentSessionId' = currentSessionId + 1
    /\ last' = [op |-> "restart"]
    /\ UNCHANGED <<storage, now, saveFailures>>

\* A useApi hook as it is mounted (data: null, loading: false, error:
\* null), the apiCache of the module, empty, and the calls of execute made
\* so far, in the order they were started.  null is the empty sequence.
ApiInit ==
    [data |-> <<>>, loading |-> FALSE, error |-> <<>>, cache |-> EmptyMap, calls |-> <<>>]

\* SimpleCache.get finds an item that has not outlived the ttl
cacheHit(cache, key) == key \in DOMAIN cache /\ ~cache[key].expired

\* SimpleCache.set
cacheSet(cache, key, data) == mapSet(cache, key, [data |-> data, expired |-> FALSE])

\* The component as it is mounted: the useState initial values, no search
\* awaiting its timer (pending), no search issued yet (issued), and the
\* events delivered to the engine so far: the clicks, each with the current
\* query it found (clicked), and the ratings in their order (rated).
UiInit ==
    [query |-> <<>>, isSearching |-> FALSE, showFeedback |-> FALSE, pending |-> <<>>,
     issued |-> <<>>, clicked |-> {}, rated |-> <<>>]

\* The calls made on the engine, with their arguments drawn from the given
\* sets, and the reload of the page; the component takes no part.
Engine(queries, lists, interactionQueries, clickedLists, interactionRatings, ratings, listingIds, oks, limit) ==
    \/ \E query \in queries, listings \in lists :
          Search(query, listings) /\ UNCHANGED <<ui, api>>
    \/ \E query \in interactionQueries, clicked \in clickedLists,
          rating \in interactionRatings, ok \in oks :
          RecordInteraction(query, clicked, rating, ok, limit) /\ UNCHANGED <<ui, api>>
    \/ \E rating \in ratings, ok \in oks :
          RecordFeedback(rating, ok, limit) /\ UNCHANGED <<ui, api>>
    \/ \E listingId \in listingIds, ok \in oks :
          RecordClick(listingId, ok) /\ UNCHANGED <<ui, api>>
    \/ Restart /\ UNCHANGED <<ui, api>>

\* A new engine over an empty storage
Init ==
    /\ learningData = DefaultLearningData
    /\ currentQuery = <<>>
    /\ currentSessionId = 1
    /\ storage = NoBlob
    /\ now = 0
    /\ saveFailures = 0
    /\ ui = UiInit
    /\ api = ApiInit
    /\ last = [op |-> "init"]

(***************************************************************************)
(* The catalogue and the queries of the model                              *)
(***************************************************************************)
Q_empty   == <<>>
Q_blank   == <<" ">>
Q_Ofis    == <<"O", "f", "i", "s", " ">>
Q_sklad   == W_sklad

Item1 ==
    [id |-> "1", title |-> <<"O", "f", "i", "s">>, description |-> <<>>,
     location |-> W_centr, type |-> <<"O", "f", "i", "s">>, area |-> 80,
     price |-> 100000, floor |-> 1, hasParking |-> TRUE, hasStorage |-> FALSE]

Item2 ==
    [id |-> "2", title |-> <<"S", "k", "l", "a", "d">>, description |-> <<>>,
     location |-> W_metro, type |-> <<"S", "k", "l", "a", "d">>, area |-> 120,
     price |-> 150000, floor |-> 2, hasParking |-> FALSE, hasStorage |-> TRUE]

Item3 ==
    [id |-> "3", title |-> <<"S", "k", "l", "a", "d">>, description |-> <<>>,
     location |-> W_metro, type |-> <<"S", "k", "l", "a", "d">>, area |-> 300,
     price |-> 90000, floor |-> 1, hasParking |-> FALSE, hasStorage |-> TRUE]

Catalogue == <<Item1, Item2, Item3>>

(***************************************************************************)
(* Spec: searches over two candidate lists by an engine that learns from   *)
(* clicks, ratings and interactions recorded directly.                     *)
(***************************************************************************)
Queries == {Q_empty, Q_blank, Q_sklad}

ListingLists == {Catalogue, <<Item3, Item1>>}

\* The number of interactions recorded in one run of Spec
MaxInteractions == 1

Next ==
    Engine(Queries, ListingLists, {Q_Ofis}, {<<"1", "3">>}, {NoRating}, {5}, {"1"},
           {TRUE}, MaxInteractions)

Spec == Init /\ [][Next]_vars

(***************************************************************************)
(* SpecClick: clicks on two listings under failing saves                   *)
(***************************************************************************)
\* The number of interactions recorded in one run of SpecClick
MaxClickInteractions == 1

NextClick ==
    Engine({Q_empty, Q_sklad}, {Catalogue}, {Q_sklad}, {<<"1", "3">>}, {NoRating}, {5},
           {"1", "2"}, BOOLEAN, MaxClickInteractions)

SpecClick == Init /\ [][NextClick]_vars

(***************************************************************************)
(* SpecFeedback: ratings inside and outside 1..5, given to a new engine    *)
(* searching an empty catalogue.                                           *)
(***************************************************************************)
\* The ratings recordFeedback is called with: 1..5 and one value either side
Ratings == 0..6

\* The number of interactions recorded in one run of SpecFeedback
MaxFeedbacks == 3

NextFeedback ==
    Engine({Q_sklad}, {<<>>}, {Q_Ofis}, {<<"1", "3">>}, {NoRating}, Ratings, {"1"},
           {TRUE}, MaxFeedbacks)

SpecFeedback == Init /\ [][NextFeedback]_vars

(***************************************************************************)
(* SpecReturning: the same calls on the engine of a user who comes back:   *)
(* the storage holds what an earlier engine saved after two ratings of 5.  *)
(***************************************************************************)
earlierInteraction(timestamp, rating) ==
    [query |-> Q_sklad, timestamp |-> timestamp, resultsCount |-> 0,
     clickedListings |-> <<>>, feedbackRating |-> <<rating>>, sessionId |-> 0]

\* The learning data after the interactions first..lastOne of the earlier
\* engine, each of them a rating of its search.  The range is halved, so
\* that the depth of the evaluation stays logarithmic in its length.
RECURSIVE earlierDataFrom(_, _, _, _)
earlierDataFrom(data, first, lastOne, rating) ==
    IF first > lastOne THEN data
    ELSE IF first = lastOne THEN recordInteraction(data, earlierInteraction(first, rating))
    ELSE LET mid == (first + lastOne) \div 2
             firstHalf == earlierDataFrom(data, first, mid, rating)
         IN  IF Len(firstHalf.successfulQueries) > mid
             THEN earlierDataFrom(firstHalf, mid + 1, lastOne, rating)
             ELSE firstHalf

earlierData(n, rating) == earlierDataFrom(DefaultLearningData, 0, n - 1, rating)

InitFrom(data, clock) ==
    /\ storage = <<serialize(data)>>
    /\ learningData = loadLearningData(storage)
    /\ currentQuery = <<>>
    /\ currentSessionId = 1
    /\ now = clock
    /\ saveFailures = 0
    /\ ui = UiInit
    /\ api = ApiInit
    /\ last = [op |-> "init"]

InitReturning == InitFrom(earlierData(2, 5), 2)

NextReturning ==
    Engine({Q_sklad}, {<<>>}, {Q_Ofis}, {<<"1", "3">>}, {NoRating}, Ratings, {"1"},
           {TRUE}, 2 + MaxFeedbacks)

SpecReturning == InitReturning /\ [][NextReturning]_vars

(***************************************************************************)
(* SpecLog: the engine of a user whose log is one interaction short of     *)
(* LogCap: the earlier engine recorded LogCap - 1 ratings of 3.            *)
(***************************************************************************)
\* The number of interactions SpecLog records beyond LogCap
MaxLogOverflow == 2

InitLog == InitFrom(earlierData(LogCap - 1, 3), LogCap - 1)

NextLog ==
    Engine({Q_sklad}, {<<>>}, {Q_sklad}, {<<"1", "3">>}, {NoRating}, {1}, {"1"},
           BOOLEAN, LogCap + MaxLogOverflow)

SpecLog == InitLog /\ [][NextLog]_vars

(***************************************************************************)
(* SpecStart: the engine is constructed over a storage that holds nothing, *)
(* or a text it did not write, or a blob of its own.                       *)
(***************************************************************************)
\* A text that is not JSON
GarbageBlob == [garbage |-> TRUE]

\* The text {}
EmptyObjectBlob == [b \in {} |-> 0]

\* A blob an engine wrote after one rating of 5
OwnBlob == serialize(earlierData(1, 5))

\* That blob without its field featureWeights
BlobWithoutWeights == [f \in DOMAIN OwnBlob \ {"featureWeights"} |-> OwnBlob[f]]

\* That blob with a number for featureWeights
BlobWithNumberForWeights ==
    [f \in (DOMAIN OwnBlob \ {"featureWeights"}) \cup {"nonIterable"} |->
        IF f = "nonIterable" THEN {"featureWeights"} ELSE OwnBlob[f]]

StoredAtStart ==
    {NoBlob, <<GarbageBlob>>, <<EmptyObjectBlob>>, <<OwnBlob>>, <<BlobWithoutWeights>>,
     <<BlobWithNumberForWeights>>}

InitStart == \E stored \in StoredAtStart :
    /\ storage = stored
    /\ learningData = loadLearningData(stored)
    /\ currentQuery = <<>>
    /\ currentSessionId = 1
    /\ now = 1
    /\ saveFailures = 0
    /\ ui = UiInit
    /\ api = ApiInit
    /\ last = [op |-> "init"]

\* The number of ratings given in one run of SpecStart
MaxStartFeedbacks == 1

NextStart ==
    Engine({Q_sklad}, {Catalogue}, {Q_Ofis}, {<<"1", "3">>}, {NoRating}, {1, 5}, {"1"},
           BOOLEAN, 1 + MaxStartFeedbacks)

SpecStart == InitStart /\ [][NextStart]_vars

(***************************************************************************)
(* SpecScore: listings that lack fields, and the scoring of single         *)
(* listings, by an engine that learns from ratings.                        *)
(***************************************************************************)
\* calculateAdaptiveScore(query, listing) called on its own, with a query
\* already normalised
Score(query, listing) ==
    /\ last' = [op |-> "score", query |-> query, listing |-> listing,
                threw |-> scoreThrows(listing),
                ret |-> IF scoreThrows(listing) THEN [score |-> 0, matchedFeatures |-> <<>>]
                        ELSE calculateAdaptiveScore(learningData, query, listing)]
    /\ UNCHANGED <<learningData, currentQuery, currentSessionId, storage, now, saveFailures, ui, api>>

W_centre == <<"c", "e", "n", "t", "r", "e">>

W_parkovkoj == <<"p", "a", "r", "k", "o", "v", "k", "o", "j">>

\* небольшой магазин в центре с парковкой
Q_scenario ==
    W_nebolqshoj \o <<" ">> \o W_magazin \o <<" ", "v", " ">> \o W_centre
                 \o <<" ", "s", " ">> \o W_parkovkoj

T_MagazinVCentre == <<"M", "a", "g", "a", "z", "i", "n", " ", "v", " ">> \o W_centre

\* {title: "Магазин в центре", area: 80, price: 100000, type: "Магазин",
\*  hasParking: true}
ScenarioItem ==
    [title |-> T_MagazinVCentre, area |-> 80, price |-> 100000,
     type |-> <<"M", "a", "g", "a", "z", "i", "n">>, hasParking |-> TRUE]

\* The same item with every field it lacks empty, 0 or false
ScenarioItemFilled ==
    [id |-> "5", title |-> T_MagazinVCentre, description |-> <<>>, location |-> <<>>,
     area |-> 80, price |-> 100000, type |-> <<"M", "a", "g", "a", "z", "i", "n">>,
     floor |-> 0, hasParking |-> TRUE, hasStorage |-> FALSE]

\* Listing 3 without description, floor, hasParking and hasStorage
ItemSparse ==
    [id |-> "4", title |-> <<"S", "k", "l", "a", "d">>, location |-> W_metro,
     type |-> <<"S", "k", "l", "a", "d">>, area |-> 300, price |-> 90000]

\* Listing 2 without location
ItemNoLocation ==
    [id |-> "2", title |-> <<"S", "k", "l", "a", "d">>, description |-> <<>>,
     type |-> <<"S", "k", "l", "a", "d">>, area |-> 120, price |-> 150000, floor |-> 2,
     hasParking |-> FALSE, hasStorage |-> TRUE]

ScoredQueries == {Q_scenario, W_sklad}

ScoredItems == {ScenarioItem, ScenarioItemFilled, ItemSparse, ItemNoLocation, Item3}

SparseLists == {<<ItemSparse, Item3>>, <<Item3, ItemNoLocation, ItemSparse>>}

\* The number of ratings given in one run of SpecScore
MaxScoreFeedbacks == 1

NextScore ==
    \/ \E query \in ScoredQueries, listing \in ScoredItems : Score(query, listing)
    \/ Engine({Q_empty, Q_sklad}, SparseLists, {Q_Ofis}, {<<"1", "3">>}, {NoRating}, {1, 5},
              {"4"}, {TRUE}, MaxScoreFeedbacks)

SpecScore == Init /\ [][NextScore]_vars

(***************************************************************************)
(* SpecSimilarity: calculateStringSimilarity applied to all the words over *)
(* two letters up to a length.                                             *)
(***************************************************************************)
\* The length of the longest word compared
MaxWordLen == 3

Letters == {"a", "b"}

Words == UNION {[1..n -> Letters] : n \in 0..MaxWordLen}

\* calculateStringSimilarity(str1, str2) called on its own
Similarity(str1, str2) ==
    /\ last' = [op |-> "similarity", str1 |-> str1, str2 |-> str2,
                ret |-> calculateStringSimilarity(str1, str2)]
    /\ UNCHANGED <<learningData, currentQuery, currentSessionId, storage, now, saveFailures, ui, api>>

NextSimilarity == \E str1 \in Words, str2 \in Words : Similarity(str1, str2)

SpecSimilarity == Init /\ [][NextSimilarity]_vars

(***************************************************************************)
(* SpecUi: the SelfLearningAI component over the engine.  handleSearch     *)
(* awaits a timer between the moment the user issues the search and the    *)
(* call of search; the handlers of the other events run in between.        *)
(***************************************************************************)
\* onChange of the input, handleSuggestionClick: both are disabled while
\* a search is awaited.
SetQuery(query) ==
    /\ ~ui.isSearching
    /\ ui' = [ui EXCEPT !.query = query]
    /\ last' = [op |-> "setQuery", query |-> query]
    /\ UNCHANGED <<learningData, currentQuery, currentSessionId, storage, now, saveFailures, api>>

\* handleSearch up to its await: a blank query clears the results and
\* returns, any other query starts the timer.
HandleSearchStart ==
    /\ ~ui.isSearching
    /\ ui' = IF trim(ui.query) = <<>> THEN ui
             ELSE [ui EXCEPT !.isSearching = TRUE, !.pending = <<ui.query>>,
                             !.issued = <<ui.query>>]
    /\ last' = [op |-> "handleSearch", issued |-> trim(ui.query) # <<>>]
    /\ UNCHANGED <<learningData, currentQuery, currentSessionId, storage, now, saveFailures, api>>

\* handleSearch after its await: the search of the query it was called with
HandleSearchComplete(listings) ==
    /\ ui.pending # <<>>
    /\ Search(ui.pending[1], listings)
    /\ ui' = [ui EXCEPT !.isSearching = FALSE, !.showFeedback = TRUE, !.pending = <<>>]
    /\ UNCHANGED api

\* handleClear: the button is rendered while the input holds a query
HandleClear ==
    /\ ui.query # <<>>
    /\ ui' = [ui EXCEPT !.query = <<>>, !.showFeedback = FALSE]
    /\ last' = [op |-> "handleClear"]
    /\ UNCHANGED <<learningData, currentQuery, currentSessionId, storage, now, saveFailures, api>>

\* handleFeedback: the rating buttons are rendered while showFeedback holds
HandleFeedback(rating, limit) ==
    /\ ui.showFeedback
    /\ RecordFeedback(rating, TRUE, limit)
    /\ ui' = [ui EXCEPT !.showFeedback = FALSE,
                        !.rated = IF hasCurrentQuery THEN Append(@, rating) ELSE @]
    /\ UNCHANGED api

\* The listener of the listingClick events of the window
HandleListingClick(listingId) ==
    /\ RecordClick(listingId, TRUE)
    /\ ui' = [ui EXCEPT !.clicked = IF hasCurrentQuery
                                    THEN @ \cup {<<currentQuery, listingId>>} ELSE @]
    /\ UNCHANGED api

\* The page is loaded again: a new engine and a new component
Reload ==
    /\ Restart
    /\ ui' = [UiInit EXCEPT !.clicked = ui.clicked, !.rated = ui.rated]
    /\ UNCHANGED api

\* The ratings of the buttons the component offers (1..5) that SpecUi clicks
StarRatings == {1, 5}

\* The number of ratings given in one run of SpecUi
MaxUiFeedbacks == 1

InputQueries == {Q_Ofis, Q_sklad}

NextUi ==
    \/ \E query \in InputQueries : SetQuery(query)
    \/ HandleSearchStart
    \/ HandleSearchComplete(Catalogue)
    \/ HandleClear
    \/ \E rating \in StarRatings : HandleFeedback(rating, MaxUiFeedbacks)
    \/ HandleListingClick("1")
    \/ Reload

SpecUi == Init /\ [][NextUi]_vars

(***************************************************************************)
(* SpecMappings: interactions with empty, plain and repeating lists of     *)
(* clicked ids, and clicks after searches of queries that differ in case   *)
(* and in surrounding whitespace only.                                     *)
(***************************************************************************)
\* "Склад it склад " with its trailing space
Q_SkladItSklad == <<"S", "k", "l", "a", "d", " ">> \o W_it \o <<" ">> \o W_sklad \o <<" ">>

\* The number of interactions recorded in one run of SpecMappings
MaxMappingInteractions == 2

NextMappings ==
    Engine({Q_Ofis, W_ofis}, {<<>>}, {Q_SkladItSklad}, {<<>>, <<"1", "3">>, <<"1", "1">>},
           {NoRating}, {5}, {"1"}, {TRUE}, MaxMappingInteractions)

SpecMappings == Init /\ [][NextMappings]_vars

(***************************************************************************)
(* SpecTerms: the size term and the terms that read userPreferences, for   *)
(* queries made of numbers, size words and price words, by an engine that  *)
(* learns from ratings and interactions.                                   *)
(***************************************************************************)
\* calculateAdaptiveSizeScore(query, area) called on its own; numbers are
\* the integers query.match finds
Size(query, area) ==
    /\ last' = [op |-> "size", query |-> query, area |-> area,
                numbers |-> matchNumbers(query),
                ret |-> calculateAdaptiveSizeScore(query, area)]
    /\ UNCHANGED <<learningData, currentQuery, currentSessionId, storage, now, saveFailures, ui, api>>

Q_80 == <<"8", "0">>

\* "80", "200 80", "5000 80", "небольшой" and "80 небольшой"
SizeQueries ==
    {Q_80, <<"2", "0", "0", " ">> \o Q_80, <<"5", "0", "0", "0", " ">> \o Q_80, W_nebolqshoj,
     Q_80 \o <<" ">> \o W_nebolqshoj}

Areas == {40, 85, 150, 300, 650}

\* The number of interactions recorded in one run of SpecTerms
MaxTermInteractions == 1

\* The listings scored are listing 3 and listing 1 with an area of 85; the
\* queries "80", "80 небольшой" and the price word "дешево".
NextTerms ==
    \/ \E query \in SizeQueries, area \in Areas : Size(query, area)
    \/ \E query \in {Q_80, Q_80 \o <<" ">> \o W_nebolqshoj, W_deshevo},
          listing \in {[Item1 EXCEPT !.id = "6", !.area = 85], Item3} :
          Score(query, listing)
    \/ Engine({Q_sklad}, {Catalogue}, {Q_Ofis}, {<<"1", "3">>}, {NoRating}, {5}, {"1"},
              {TRUE}, MaxTermInteractions)

SpecTerms == Init /\ [][NextTerms]_vars

(***************************************************************************)
(* SpecApi: one useApi hook whose execute is called with cache: true and a *)
(* cache key, as fetchListings of useListings calls it for every change of *)
(* the filters or of the page; the requests settle in any order.           *)
(***************************************************************************)
\* The number of calls of execute in one run of SpecApi
MaxCalls == 3

\* The cache keys of the pages requested
CacheKeys == {"listings-page=1", "listings-page=2"}

\* execute up to its await: a cache hit sets the state and returns the
\* cached data; otherwise loading is set and apiCall is started.  The get
\* of a miss deletes the item that outlived the ttl, and no other item has
\* the key.
ExecuteStart(key) ==
    /\ Len(api.calls) < MaxCalls
    /\ api' = IF cacheHit(api.cache, key)
              THEN [api EXCEPT !.data = <<api.cache[key].data>>, !.loading = FALSE,
                               !.error = <<>>,
                               !.calls = Append(@, [key |-> key, status |-> "cached",
                                                    result |-> <<api.cache[key].data>>])]
              ELSE [api EXCEPT !.cache = [k \in DOMAIN @ \ {key} |-> @[k]], !.loading = TRUE,
                               !.error = <<>>,
                               !.calls = Append(@, [key |-> key, status |-> "pending",
                                                    result |-> <<>>])]
    /\ last' = [op |-> "execute", key |-> key, call |-> Len(api.calls) + 1]
    /\ UNCHANGED <<learningData, currentQuery, currentSessionId, storage, now, saveFailures, ui>>

\* The promise of the call-th apiCall is fulfilled: the response, the page
\* that its key names, is stored in the cache and becomes the data of the
\* hook.
ExecuteResolve(call) ==
    LET result == [page |-> api.calls[call].key]
    IN  /\ api.calls[call].status = "pending"
        /\ api' = [api EXCEPT !.cache = cacheSet(@, api.calls[call].key, result),
                              !.data = <<result>>, !.loading = FALSE, !.error = <<>>,
                              !.calls[call] = [@ EXCEPT !.status = "resolved",
                                                        !.result = <<result>>]]
        /\ last' = [op |-> "resolve", key |-> api.calls[call].key, call |-> call]
        /\ UNCHANGED <<learningData, currentQuery, currentSessionId, storage, now, saveFailures, ui>>

\* The promise of the call-th apiCall is rejected: the catch block
ExecuteReject(call) ==
    /\ api.calls[call].status = "pending"
    /\ api' = [api EXCEPT !.data = <<>>, !.loading = FALSE, !.error = <<"error">>,
                          !.calls[call] = [@ EXCEPT !.status = "rejected"]]
    /\ last' = [op |-> "reject", key |-> api.calls[call].key, call |-> call]
    /\ UNCHANGED <<learningData, currentQuery, currentSessionId, storage, now, saveFailures, ui>>

\* The clock passes the ttl of an item of the cache
TtlPasses(key) ==
    /\ cacheHit(api.cache, key)
    /\ api' = [api EXCEPT !.cache[key].expired = TRUE]
    /\ last' = [op |-> "ttl", key |-> key]
    /\ UNCHANGED <<learningData, currentQuery, currentSessionId, storage, now, saveFailures, ui>>

NextApi ==
    \/ \E key \in CacheKeys : ExecuteStart(key)
    \/ \E call \in 1..Len(api.calls) : ExecuteResolve(call)
    \/ \E call \in 1..Len(api.calls) : ExecuteReject(call)
    \/ \E key \in CacheKeys : TtlPasses(key)

SpecApi == Init /\ [][NextApi]_vars

(***************************************************************************)
(* Properties                                                              *)
(***************************************************************************)
\* The weights of the engine lie between the floor and the ceiling
weightsWithin(weights) ==
    /\ DOMAIN weights = FeatureNames
    /\ \A f \in FeatureNames : weights[f] \in 5..150

\* C1: in every reachable state of the engine, a reload from storage
\* included, every feature weight lies in [5, 150]; so does every weight of
\* the stored blob.
C1_WeightsInRange ==
    /\ weightsWithin(learningData.featureWeights)
    /\ storage # NoBlob => weightsWithin(storage[1].featureWeights)

\* C1, its case: feedback has driven one weight onto the floor while another
\* is still above it, and the engine has been reloaded from that storage.
C1_Witness ==
    /\ last.op = "restart"
    /\ learningData.featureWeights["word_match"] = 5
    /\ learningData.featureWeights["exact_match"] = 80
    /\ storage # NoBlob

\* C2 (as stated): the interaction log held in memory never has more than
\* 1000 entries.
C2_InMemoryLogBounded == Len(learningData.successfulQueries) <= LogCap

\* The query of the last search as search normalises it
normalizedLast == trim(toLowerCase(last.query))

\* The last call was a search with a query that is not empty once normalised
rankedSearch == last.op = "search" /\ normalizedLast # <<>>

\* The base score search gives a listing for the query of the last search
baseScore(listing) == calculateAdaptiveScore(learningData, normalizedLast, listing).score

\* The final score: the base score plus the type and popularity bonuses
finalScore(listing) ==
    baseScore(listing) + calculateTypeBonus(learningData, listing.type)
                       + calculatePopularityScore(learningData, listing.id)

\* The listings of a sequence whose score passes the test, as a set of positions
positionsWhere(listings, Test(_)) == {i \in 1..Len(listings) : Test(listings[i])}

baseScorePositive(listing) == baseScore(listing) > 0

finalScorePositive(listing) == finalScore(listing) > 0

\* C3 (as stated): for a query that is not empty once normalised, search
\* returns exactly the input items whose final score (base score plus type
\* bonus plus popularity bonus) is > 0.
C3_FinalScoreCutoff ==
    rankedSearch =>
        /\ \A i \in 1..Len(last.ret) : arrayIncludes(last.listings, last.ret[i])
        /\ \A i \in 1..Len(last.listings) :
              arrayIncludes(last.ret, last.listings[i]) <=> finalScorePositive(last.listings[i])

\* C3 (amended): for a query that is not empty once normalised, search
\* returns exactly the input items whose base score is > 0, each once; the
\* bonuses take no part in the cut-off.
C3_BaseScoreCutoff ==
    rankedSearch =>
        /\ \A i \in 1..Len(last.ret) : arrayIncludes(last.listings, last.ret[i])
        /\ \A i \in 1..Len(last.listings) :
              arrayIncludes(last.ret, last.listings[i]) <=> baseScorePositive(last.listings[i])
        /\ Len(last.ret) = Cardinality(positionsWhere(last.listings, baseScorePositive))

\* C3, its case: a search has kept some items and dropped an item whose
\* base score is 0 although its final score is positive.
C3_Witness ==
    /\ rankedSearch
    /\ last.ret # <<>>
    /\ \E i \in 1..Len(last.listings) :
          /\ ~arrayIncludes(last.ret, last.listings[i])
          /\ baseScore(last.listings[i]) = 0
          /\ finalScorePositive(last.listings[i])

\* The position of a listing in the list given to the last search
positionOf(listing) == CHOOSE i \in 1..Len(last.listings) : last.listings[i] = listing

\* C4: the list search returns is in non-increasing order of final score, and
\* items of equal final score keep the order they had in the input list.
C4_OrderedByFinalScore ==
    rankedSearch =>
        \A i, j \in 1..Len(last.ret) :
            i < j =>
                \/ finalScore(last.ret[i]) > finalScore(last.ret[j])
                \/ /\ finalScore(last.ret[i]) = finalScore(last.ret[j])
                   /\ positionOf(last.ret[i]) < positionOf(last.ret[j])

\* C4, its case: the popularity bonus has moved an item in front of an item
\* of the same base score that preceded it in the input.
C4_Witness ==
    /\ rankedSearch
    /\ \E i, j \in 1..Len(last.ret) :
          /\ i < j
          /\ positionOf(last.ret[i]) > positionOf(last.ret[j])
          /\ baseScore(last.ret[i]) = baseScore(last.ret[j])

\* C5: for a query that is empty once lower-cased and trimmed, search returns
\* the input list as it was given.
C5_EmptyQueryPassThrough ==
    (last.op = "search" /\ normalizedLast = <<>>) => last.ret = last.listings

\* C5, its case: a whitespace-only query was searched over a catalogue whose
\* items have clicks recorded, which ranking would have reordered.
C5_Witness ==
    /\ last.op = "search"
    /\ last.query = Q_blank
    /\ last.ret = Catalogue
    /\ calculatePopularityScore(learningData, "3") > 0

\* The last call was a recordFeedback that found a current query
feedbackRecorded(call) == call.op = "recordFeedback" /\ call.recorded

\* C6: with a current query set, after recordFeedback(5) every feature weight
\* is at least what it was before the call and at most 150; after
\* recordFeedback(1) every feature weight is at most what it was before and
\* at least 5.
C6_FeedbackMonotone ==
    [][ /\ (feedbackRecorded(last') /\ last'.rating = 5) =>
              \A f \in FeatureNames :
                  /\ learningData'.featureWeights[f] >= learningData.featureWeights[f]
                  /\ learningData'.featureWeights[f] <= 150
        /\ (feedbackRecorded(last') /\ last'.rating = 1) =>
              \A f \in FeatureNames :
                  /\ learningData'.featureWeights[f] <= learningData.featureWeights[f]
                  /\ learningData'.featureWeights[f] >= 5
      ]_vars

\* C6, its case: recordFeedback(5) was called when exact_match had reached
\* the ceiling, which kept it there, and raised type_match below it.
C6_Witness ==
    /\ feedbackRecorded(last)
    /\ last.rating = 5
    /\ learningData.featureWeights["exact_match"] = 150
    /\ learningData.featureWeights["type_match"] = 110

\* The rating of the interaction a call recorded, if it recorded one
recordedRating(call) ==
    IF call.op = "recordInteraction" THEN call.interaction.feedbackRating
    ELSE IF feedbackRecorded(call) THEN <<call.rating>>
    ELSE NoRating

\* The call recorded an interaction
interactionRecorded(call) == call.op = "recordInteraction" \/ feedbackRecorded(call)

\* max(5, min(150, x)), written out
clamped(x) == IF x < 5 THEN 5 ELSE IF x > 150 THEN 150 ELSE x

\* Every interaction of the log is a rating of 1
allRatedOne(log) == \A i \in 1..Len(log) : log[i].feedbackRating = <<1>>

\* C7: an interaction recorded with a rating r in 1..5 replaces every feature
\* weight w by max(5, min(150, w + (r - 3) * 5)); an interaction recorded
\* without a rating leaves the weights as they were; from the default
\* weights, one, two and three recordFeedback(1) calls bring exact_match to
\* 90, 80 and 70.
C7_WeightAdjustment ==
    [][ /\ (interactionRecorded(last') /\ recordedRating(last') = NoRating) =>
              learningData'.featureWeights = learningData.featureWeights
        /\ (interactionRecorded(last') /\ recordedRating(last') # NoRating
                                       /\ recordedRating(last')[1] \in 1..5) =>
              \A f \in FeatureNames :
                  learningData'.featureWeights[f] =
                      clamped(learningData.featureWeights[f]
                              + (recordedRating(last')[1] - 3) * 5)
        /\ (allRatedOne(learningData'.successfulQueries)
                /\ Len(learningData'.successfulQueries) <= 3) =>
              learningData'.featureWeights["exact_match"] =
                  100 - 10 * Len(learningData'.successfulQueries)
      ]_vars

\* C7, its case: three recordFeedback(1) calls were made from the default
\* weights, and word_match, 20 by default, was held at the floor.
C7_Witness ==
    /\ feedbackRecorded(last)
    /\ Len(learningData.successfulQueries) = 3
    /\ allRatedOne(learningData.successfulQueries)
    /\ learningData.featureWeights["exact_match"] = 70
    /\ learningData.featureWeights["word_match"] = 5

\* C8 (as stated): recordFeedback(r) with r < 1 or r > 5 leaves the learning
\* data and what is stored unchanged.
C8_InvalidRatingIgnored ==
    [][ (last'.op = "recordFeedback" /\ last'.rating \notin 1..5) =>
            /\ learningData' = learningData
            /\ storage' = storage
      ]_vars

\* The call was a recordClick or a recordFeedback
clickOrFeedback(call) == call.op \in {"recordClick", "recordFeedback"}

\* C9: when there is no current query (no search was made yet, or the last
\* search was made with the empty query), recordClick and recordFeedback
\* leave the learning data unchanged and write nothing to storage.
C9_NoQueryNoOp ==
    [][ (clickOrFeedback(last') /\ currentQuery = <<>>) =>
            /\ learningData' = learningData
            /\ storage' = storage
            /\ ~last'.recorded
      ]_vars

\* C9, its case: a click was made after a search with the empty query, while
\* the learning data in memory held an interaction that storage does not
\* hold, and storage was left as it was.
C9_Witness ==
    /\ last.op = "recordClick"
    /\ ~last.recorded
    /\ currentQuery = <<>>
    /\ currentSessionId > 1
    /\ Len(learningData.successfulQueries) > 0
    /\ storage # <<serialize(learningData)>>

\* The ids contextualMappings holds for a key, none when it has no entry
idsOf(ld, key) == IF key \in DOMAIN ld.contextualMappings THEN mappingIds(ld, key) ELSE <<>>

\* C10: with a current query q, recordClick(id) puts id at the end of the ids
\* of contextualMappings[q] when it is not among them, and changes nothing
\* and stores nothing when it is; the ids of every other key stay as they
\* were.
C10_ClickAppendsOnce ==
    [][ (last'.op = "recordClick" /\ currentQuery # <<>>) =>
            /\ IF arrayIncludes(idsOf(learningData, currentQuery), last'.listingId)
               THEN /\ learningData' = learningData
                    /\ storage' = storage
               ELSE idsOf(learningData', currentQuery) =
                        Append(idsOf(learningData, currentQuery), last'.listingId)
            /\ \A key \in DOMAIN learningData.contextualMappings :
                  key # currentQuery =>
                      idsOf(learningData', key) = idsOf(learningData, key)
      ]_vars

\* C10, its case: a click was put behind the two ids the query already had,
\* and a click on one of them was then ignored.
C10_Witness ==
    /\ last.op = "recordClick"
    /\ ~last.recorded
    /\ currentQuery = Q_sklad
    /\ idsOf(learningData, currentQuery) = <<"1", "3", "2">>

\* A click or a rating was recorded by the call
recordedUnderQuery(call) == clickOrFeedback(call) /\ call.recorded

\* C11 (as stated): once a search has been issued, every click and every
\* rating that is recorded is recorded under the query of the search issued
\* last, never under the query of an earlier search.
C11_AttributedToLatestIssued ==
    [][ (recordedUnderQuery(last') /\ ui.issued # <<>>) => currentQuery = ui.issued[1] ]_vars

\* The call was one that mutates the learning data and saves it
mutationSaved(call) ==
    /\ call.op \in {"recordInteraction", "recordFeedback", "recordClick"}
    /\ call.saved

\* The blob holds the learning data: the maps entry for entry, and the most
\* recent 1000 interactions of the log in their order
snapshotOf(blob, ld) ==
    /\ blob.queryPatterns = ld.queryPatterns
    /\ blob.featureWeights = ld.featureWeights
    /\ blob.userPreferences = ld.userPreferences
    /\ DOMAIN blob.contextualMappings = DOMAIN ld.contextualMappings
    /\ \A key \in DOMAIN ld.contextualMappings : blob.contextualMappings[key] = idsOf(ld, key)
    /\ Len(blob.successfulQueries) = Min2(1000, Len(ld.successfulQueries))
    /\ \A i \in 1..Len(blob.successfulQueries) :
          blob.successfulQueries[i] =
              ld.successfulQueries[Len(ld.successfulQueries) - Len(blob.successfulQueries) + i]

\* C12: when the write succeeds, after each recordInteraction call and each
\* recordClick call that changes the state the stored blob holds the learning
\* data in memory (the maps, and the most recent 1000 interactions); every
\* blob written is a snapshot of the state at the time of the write, so the
\* blobs follow one another in the order of the mutations.
C12_SavedAfterEveryMutation ==
    [][ /\ mutationSaved(last') =>
              (storage' # NoBlob /\ snapshotOf(storage'[1], learningData'))
        /\ storage' # storage =>
              (storage' # NoBlob /\ snapshotOf(storage'[1], learningData'))
        /\ (last'.op = "recordInteraction" \/ recordedUnderQuery(last')) =>
              (last'.saved \/ saveFailures' > saveFailures)
      ]_vars

\* C12, its case: an interaction was recorded and saved when the log in
\* memory had outgrown 1000 entries, of which the blob holds the last 1000.
C12_Witness ==
    /\ last.op = "recordInteraction"
    /\ last.saved
    /\ Len(learningData.successfulQueries) = LogCap + 1
    /\ Len(storage[1].successfulQueries) = LogCap
    /\ storage[1].successfulQueries[LogCap] = learningData.successfulQueries[LogCap + 1]

\* The write of the call failed
writeFailed(call) ==
    /\ call.op = "recordInteraction" \/ recordedUnderQuery(call)
    /\ ~call.saved

\* C13: when the write to storage throws during recordInteraction or
\* recordClick, the call completes, storage keeps what it held, and the
\* learning data in memory holds the mutation; the searches and ratings that
\* follow work on the learning data in memory.
C13_FailedWriteNotFatal ==
    [][ /\ writeFailed(last') => storage' = storage
        /\ (writeFailed(last') /\ last'.op = "recordInteraction") =>
              learningData'.successfulQueries =
                  Append(learningData.successfulQueries, last'.interaction)
        /\ (writeFailed(last') /\ last'.op = "recordClick") =>
              idsOf(learningData', currentQuery) =
                  Append(idsOf(learningData, currentQuery), last'.listingId)
        /\ last'.op = "search" => learningData' = learningData
        /\ feedbackRecorded(last') =>
              /\ Len(learningData'.successfulQueries) = Len(learningData.successfulQueries) + 1
              /\ \A i \in 1..Len(learningData.successfulQueries) :
                    learningData'.successfulQueries[i].query =
                        learningData.successfulQueries[i].query
      ]_vars

\* C13, its case: the write of an interaction failed, storage is still
\* empty, and the search that followed ranked listing 3 first on the clicks
\* of the interaction held in memory only.
C13_Witness ==
    /\ last.op = "search"
    /\ storage = NoBlob
    /\ saveFailures = 1
    /\ Len(learningData.successfulQueries) = 1
    /\ last.listings = Catalogue
    /\ last.ret # <<>>
    /\ last.ret[1] = Item3

\* What storage holds is a blob with all its fields in the shape the engine
\* writes them
wellFormed(stored) ==
    /\ stored # NoBlob
    /\ ~loadThrows(stored[1])
    /\ MapFields \cup {"successfulQueries"} \subseteq DOMAIN stored[1]

\* The engine has just been constructed
justConstructed == last.op \in {"init", "restart"}

\* C14 (as stated): an engine constructed over a storage whose blob is
\* absent, unparseable or malformed has the default learning data: empty
\* patterns, preferences, mappings and log, and the default weights.
C14_MalformedBlobGivesDefaults ==
    (justConstructed /\ ~wellFormed(storage)) => learningData = DefaultLearningData

\* C15: a search leaves the learning data (pattern frequencies, weights,
\* preferences, mappings, log) and the storage as they were, and the list the
\* caller passed as it was.
C15_SearchReadOnly ==
    [][ last'.op = "search" =>
            /\ learningData' = learningData
            /\ storage' = storage
            /\ last'.inputAfter = last'.listings
      ]_vars

\* C15, its case: an engine that has learnt and saved searched a query that
\* is not empty and returned the listings in an order other than the order
\* of the list it was given.
C15_Witness ==
    /\ rankedSearch
    /\ learningData.queryPatterns # EmptyMap
    /\ storage # NoBlob
    /\ Len(last.ret) = Len(last.listings)
    /\ last.ret # last.listings

RECURSIVE adjustedBy(_, _, _)
adjustedBy(weight, ratings, i) ==
    IF i > Len(ratings) THEN weight
    ELSE adjustedBy(clamped(weight + (ratings[i] - 3) * 5), ratings, i + 1)

\* The ids recorded for all the keys of contextualMappings, counted
RECURSIVE idCount(_, _)
idCount(ld, keys) ==
    IF keys = {} THEN 0
    ELSE LET key == CHOOSE k \in keys : TRUE
         IN  Len(idsOf(ld, key)) + idCount(ld, keys \ {key})

C18_ScoringNeverThrows ==
    last.op \in {"search", "score"} => ~last.threw

\* C19 (as stated): with the default learning data, the scenario item (its
\* missing fields empty, 0 or false) scored against the scenario query has a
\* score > 0 and type_match, size_match, feature_match and word_match among
\* its matched features.
C19_ScenarioFactors ==
    (/\ last.op = "score"
     /\ last.query = Q_scenario
     /\ last.listing = ScenarioItemFilled
     /\ learningData = DefaultLearningData) =>
        /\ ~last.threw
        /\ last.ret.score > 0
        /\ \A f \in {"type_match", "size_match", "feature_match", "word_match"} :
              arrayIncludes(last.ret.matchedFeatures, f)

\* The least number of insertions, deletions and substitutions of one
\* character that turn a into b
RECURSIVE editDistance(_, _)
editDistance(a, b) ==
    IF a = <<>> THEN Len(b)
    ELSE IF b = <<>> THEN Len(a)
    ELSE Min2(editDistance(Tail(a), Tail(b)) + (IF Head(a) = Head(b) THEN 0 ELSE 1),
              Min2(editDistance(Tail(a), b) + 1, editDistance(a, Tail(b)) + 1))

\* C20: similarity(a, b) is (max(len a, len b) - editDistance(a, b)) /
\* max(len a, len b), lies between 0 and 1, and is 1 when a = b, also when
\* both are empty.
C20_SimilarityFormula ==
    last.op = "similarity" =>
        LET longest == Max2(Len(last.str1), Len(last.str2))
        IN  /\ last.ret.den > 0
            /\ longest > 0 =>
                  last.ret.num * longest
                      = (longest - editDistance(last.str1, last.str2)) * last.ret.den
            /\ 0 <= last.ret.num
            /\ last.ret.num <= last.ret.den
            /\ last.str1 = last.str2 => last.ret.num = last.ret.den

\* C20, its case: two words of different lengths that a substitution and an
\* insertion tell apart were compared, with similarity 1/3.
C20_Witness ==
    /\ last.op = "similarity"
    /\ last.str1 = <<"a", "b">>
    /\ last.str2 = <<"b", "a", "a">>
    /\ last.ret.num * 3 = last.ret.den

\* No element occurs twice in the array
noDuplicates(arr) == \A i, j \in 1..Len(arr) : arr[i] = arr[j] => i = j

\* C21 (as stated): after any sequence of recordClick and recordInteraction
\* calls, no list of contextualMappings holds the same item id twice.
C21_NoDuplicateIds ==
    \A key \in DOMAIN learningData.contextualMappings :
        noDuplicates(idsOf(learningData, key))

\* A key in the form the engine looks queries up: lower-cased and trimmed
normalizedKey(key) == key = trim(toLowerCase(key))

\* C22 (as stated): every key of contextualMappings and of patternFrequency
\* is lower-cased and trimmed.
C22_KeysNormalized ==
    /\ \A key \in DOMAIN learningData.contextualMappings : normalizedKey(key)
    /\ \A word \in DOMAIN learningData.queryPatterns : normalizedKey(word)

\* The number of times the word occurs among the tokens
occurrences(tokens, word) == Cardinality({k \in 1..Len(tokens) : tokens[k] = word})

\* The count patternFrequency holds for a word, 0 when it has none
frequencyOf(ld, word) == IF word \in DOMAIN ld.queryPatterns THEN ld.queryPatterns[word] ELSE 0

\* C23: recordInteraction with clicked ids adds to the count of every token
\* of the lower-cased query that is longer than 2 characters one for each of
\* its occurrences, leaves every other count as it was, and makes the
\* clicked ids the ids of the query, whatever ids it had; recordInteraction
\* without clicked ids leaves the counts and the ids of every key as they
\* were; no step lowers a count or removes a word.
C23_InteractionLearnsQuery ==
    [][ /\ (last'.op = "recordInteraction" /\ last'.interaction.clickedListings # <<>>) =>
              LET query  == toLowerCase(last'.interaction.query)
                  tokens == splitWs(query)
              IN  /\ \A word \in DOMAIN learningData'.queryPatterns :
                        frequencyOf(learningData', word) =
                            frequencyOf(learningData, word)
                            + (IF Len(word) > 2 THEN occurrences(tokens, word) ELSE 0)
                  /\ \A k \in 1..Len(tokens) :
                        Len(tokens[k]) > 2 => tokens[k] \in DOMAIN learningData'.queryPatterns
                  /\ idsOf(learningData', query) = last'.interaction.clickedListings
                  /\ query \in DOMAIN learningData'.contextualMappings
        /\ (last'.op = "recordInteraction" /\ last'.interaction.clickedListings = <<>>) =>
              /\ learningData'.queryPatterns = learningData.queryPatterns
              /\ DOMAIN learningData'.contextualMappings = DOMAIN learningData.contextualMappings
              /\ \A key \in DOMAIN learningData.contextualMappings :
                    idsOf(learningData', key) = idsOf(learningData, key)
        /\ \A word \in DOMAIN learningData.queryPatterns :
              /\ word \in DOMAIN learningData'.queryPatterns
              /\ learningData'.queryPatterns[word] >= learningData.queryPatterns[word]
      ]_vars

\* C23, its case: a second interaction of the same query replaced the ids
\* of the first, and its query holds a token twice and a token of 2
\* characters.
C23_Witness ==
    /\ last.op = "recordInteraction"
    /\ last.interaction.query = Q_SkladItSklad
    /\ Len(learningData.successfulQueries) = 2
    /\ learningData.successfulQueries[1].query = Q_SkladItSklad
    /\ learningData.successfulQueries[1].clickedListings = <<"1", "1">>
    /\ idsOf(learningData, toLowerCase(Q_SkladItSklad)) = <<"1", "3">>
    /\ frequencyOf(learningData, W_sklad) = 4
    /\ W_it \notin DOMAIN learningData.queryPatterns

\* The positions of the integers of a query that decide the size score for
\* an area: at most 1000 and within 100 of it
qualifying(numbers, area) ==
    {i \in 1..Len(numbers) : numbers[i] <= 1000 /\ Abs(area - numbers[i]) <= 100}

\* The least element of a set of positions that is not empty
firstOf(positions) == CHOOSE i \in positions : \A j \in positions : i <= j

\* The area lies in the bucket of a size word the query holds
inMatchedBucket(query, area) ==
    \E b \in 1..Len(getLearnedSizePreferences) :
        /\ includes(query, getLearnedSizePreferences[b].word)
        /\ getLearnedSizePreferences[b].min <= area
        /\ area <= getLearnedSizePreferences[b].max

\* C24: the first integer n <= 1000 of the query with |area - n| <= 100
\* decides the raw size score (40 for a difference <= 20, else 20 for <= 50,
\* else 10); only when no integer qualifies is it 30 for an area in the
\* bucket of a size word of the query, and 0 otherwise; a score whose only
\* term is the size term is raw * featureWeights[size_match] / 30, which is
\* 40 for the query "80", area 85 and the default weights.
C24_SizeInference ==
    /\ last.op = "size" =>
          LET decisive == qualifying(last.numbers, last.area)
              diff == Abs(last.area - last.numbers[firstOf(decisive)])
          IN  IF decisive # {}
              THEN last.ret = (IF diff <= 20 THEN 40 ELSE IF diff <= 50 THEN 20 ELSE 10)
              ELSE last.ret = (IF inMatchedBucket(last.query, last.area) THEN 30 ELSE 0)
    /\ (last.op = "score" /\ ~last.threw) =>
          LET raw == calculateAdaptiveSizeScore(last.query, last.listing.area)
          IN  /\ arrayIncludes(last.ret.matchedFeatures, "size_match") <=> raw > 0
              /\ last.ret.matchedFeatures = <<"size_match">> =>
                    last.ret.score * 30
                        = raw * learningData.featureWeights["size_match"] * ScoreScale
              /\ (/\ last.query = Q_80
                  /\ last.listing.area = 85
                  /\ learningData.featureWeights = DefaultWeights) =>
                    last.ret.score = 40 * ScoreScale

\* C24, its case: in "200 80" the first integer is too far from the area
\* of 85 and the second decides.
C24_Witness ==
    /\ last.op = "size"
    /\ last.numbers = <<200, 80>>
    /\ last.area = 85
    /\ last.ret = 40

\* C27: from the default learning data no operation of the engine writes
\* userPreferences: it is empty in memory and in every blob stored, so the
\* type bonus of every listing is 0 and a price word of the query adds
\* nothing to a score.
C27_PreferencesNeverWritten ==
    /\ learningData.userPreferences = EmptyMap
    /\ storage # NoBlob => storage[1].userPreferences = EmptyMap
    /\ last.op = "search" =>
          \A i \in 1..Len(last.listings) :
              calculateTypeBonus(learningData, last.listings[i].type) = 0
    /\ (last.op = "score" /\ ~last.threw) =>
          /\ calculateTypeBonus(learningData, last.listing.type) = 0
          /\ PriceByWords10(learningData, last.query, 1) = 0
          /\ matchNumbers(last.query) = <<>> =>
                ~arrayIncludes(last.ret.matchedFeatures, "price_match")

\* C27, its case: a listing was scored against a price word by an engine
\* that was loaded from what an earlier engine saved after an interaction
\* with clicks and a click.
C27_Witness ==
    /\ last.op = "score"
    /\ last.query = W_deshevo
    /\ last.listing = Item3
    /\ currentSessionId > 1
    /\ Len(learningData.successfulQueries) = 1
    /\ learningData.queryPatterns # EmptyMap
    /\ Cardinality(DOMAIN learningData.contextualMappings) = 2

\* C25 (as stated): a rating is submitted only when the results of the
\* current search are displayed and no search is in progress; it ends the
\* display of the rating buttons, which only the completion of a search
\* brings back; a search starts only when none is in progress; a click
\* leaves the state of the interaction as it was.
C25_InteractionStateMachine ==
    [][ /\ last'.op = "recordFeedback" =>
              /\ ~ui.isSearching
              /\ ui.showFeedback
              /\ ~ui'.showFeedback
        /\ (ui'.showFeedback /\ ~ui.showFeedback) => last'.op = "search"
        /\ (ui'.isSearching /\ ~ui.isSearching) => ui.pending = <<>>
        /\ last'.op = "recordClick" =>
              /\ ui'.isSearching = ui.isSearching
              /\ ui'.showFeedback = ui.showFeedback
              /\ ui'.pending = ui.pending
      ]_vars

\* C26 (as stated): a recordClick call leaves the interaction log, the
\* clicked ids of every logged interaction, patternFrequency, featureWeights
\* and userPreferences as they were, and with them the popularity bonus of
\* every listing.
C26_ClickWritesMappingsOnly ==
    [][ last'.op = "recordClick" =>
            /\ learningData'.successfulQueries = learningData.successfulQueries
            /\ learningData'.queryPatterns = learningData.queryPatterns
            /\ learningData'.featureWeights = learningData.featureWeights
            /\ learningData'.userPreferences = learningData.userPreferences
            /\ \A i \in 1..Len(Catalogue) :
                  calculatePopularityScore(learningData', Catalogue[i].id) =
                      calculatePopularityScore(learningData, Catalogue[i].id)
      ]_vars

\* C29: whatever the events of the component (searches, clicks on listings,
\* ratings, clear, reloads of the page) from the default state, every logged
\* interaction has no clicked ids, patternFrequency and userPreferences are
\* empty, no mapping shares its array with the log, and the popularity
\* bonus of every listing is 0.
C29_UiNeverLogsClicks ==
    /\ \A i \in 1..Len(learningData.successfulQueries) :
          learningData.successfulQueries[i].clickedListings = <<>>
    /\ learningData.queryPatterns = EmptyMap
    /\ learningData.userPreferences = EmptyMap
    /\ \A key \in DOMAIN learningData.contextualMappings :
          learningData.contextualMappings[key].ref = 0
    /\ \A i \in 1..Len(Catalogue) :
          calculatePopularityScore(learningData, Catalogue[i].id) = 0

\* C29, its case: a search was made after clicks under two queries, a
\* rating and a reload of the page.
C29_Witness ==
    /\ last.op = "search"
    /\ currentSessionId > 1
    /\ Len(learningData.successfulQueries) = 1
    /\ learningData.featureWeights # DefaultWeights
    /\ Cardinality(DOMAIN learningData.contextualMappings) = 2

\* The weights no term of calculateAdaptiveScore reads
UnreadWeights == {"location_match", "number_match", "word_match"}

\* The learning data with the unread weights replaced
withWeights(ld, replaced) ==
    [ld EXCEPT !.featureWeights =
        [f \in DOMAIN ld.featureWeights |->
            IF f \in UnreadWeights THEN replaced[f] ELSE ld.featureWeights[f]]]

\* C28: a search gives the same scores, matched features and result, in the
\* same order, under every learning data that differs from that of the
\* engine in the location_match, number_match and word_match weights only.
C28_UnreadWeightsIgnored ==
    rankedSearch =>
        \A replaced \in [UnreadWeights -> {5, 150}] :
            /\ scoreListings(withWeights(learningData, replaced), normalizedLast,
                             last.listings) = last.scored
            /\ search(withWeights(learningData, replaced), last.query, last.listings)
                  = last.ret

\* C28, its case: the catalogue was searched by an engine whose weights a
\* rating has changed, and listing 1 matched by its context.
C28_Witness ==
    /\ rankedSearch
    /\ last.listings = Catalogue
    /\ learningData.featureWeights["word_match"] = 30
    /\ arrayIncludes(last.scored[1].matchedFeatures, "context_match")
    /\ Len(last.ret) = 3

\* No call of execute awaits its apiCall
allSettled(hook) == \A i \in 1..Len(hook.calls) : hook.calls[i].status # "pending"

\* The hook shows what the call started last produced: its result, or its
\* failure
showsLatest(hook) ==
    LET latest == hook.calls[Len(hook.calls)]
    IN  IF latest.status = "rejected"
        THEN hook.data = <<>> /\ hook.error # <<>>
        ELSE hook.data = latest.result /\ hook.error = <<>>

\* C30 (as stated): once the calls of execute made on a hook have all
\* settled, in whatever order, its data is the result of the call started
\* last; a call that fails stores nothing in the cache.
C30_ShowsLatestRequest ==
    [][ /\ (Len(api'.calls) > 0 /\ allSettled(api')) => showsLatest(api')
        /\ last'.op = "reject" => api'.cache = api.cache
      ]_vars

=============================================================================
